---------------------------- MODULE Spec2Model ----------------------------
(***************************************************************************)
(* A model of alpha_shapes_2d.py: the Graham scan of convex_hull, the edge *)
(* classification of alpha_shape, and the frame loop that calls them.      *)
(*                                                                         *)
(* Points are pairs <<x, y>> of integers (pixel coordinates).  alpha is    *)
(* kept as an integer number of STEPs (STEP = 0.001), so that the presets  *)
(* are -20 and 5 and the radius 1/|alpha| is 1000/|alpha| pixels.          *)
(***************************************************************************)
EXTENDS Integers, Sequences, FiniteSets, TLC

\* ------------------------------------------------------------------ bounds
\* convex_hull: points are drawn from (0..MaxCoord) x (0..MaxCoord)
MaxCoord == 2
\* convex_hull: input lists hold 3..MaxHullPoints points
MaxHullPoints == 4

\* the scan's own specification: points from (0..MaxScanX) x (0..MaxScanY),
\* lists of 3..MaxScanPoints points
MaxScanX == 1
MaxScanY == 2
MaxScanPoints == 4
\* alpha_shape: lists of 1..MaxTriangles triangles
MaxTriangles == 2
\* frame loop: at most MaxBatch events are handled in one frame
MaxBatch == 2
\* frame loop with short batches: at most MaxFrameEvents events in one frame
MaxFrameEvents == 1
\* frame loop: the arrow keys keep alpha within MaxDrift STEPs of 0 (there the
\* program's float sums are the exact multiples of STEP)
MaxDrift == 1

\* --------------------------------------------------------------- constants
SCREEN_HEIGHT == 1000
POINT_RADIUS == 7
\* in STEPs
NEGATIVE_ALPHA_VALUE == -20
POSITIVE_ALPHA_VALUE == 5
STEP == 1
\* 1 / STEP: alpha is counted in STEPs
STEPS_PER_UNIT == 1000

VARIABLES
    \* convex_hull
    points,     \* parameter and local variable points
    p0,         \* local variable p0
    hull,       \* local variable hull
    i,          \* local variable i
    drawn,      \* the segments drawn by the final loop, in order
    hpc,        \* position in convex_hull: "start", "scan", "done"
    \* module globals
    points_list,
    alpha,                  \* in STEPs
    show_generalized_disks,
    \* alpha_shape
    triangles,          \* its argument: a list of triples of points
    points_with_center, \* local list of <<p1, p2, c>>
    considered_edges,   \* local list of <<p1, p2>>
    tri,                \* first loop: index of the triangle t, from 1
    edge,               \* first loop: the edge index i of alpha_shape, 0..2
    rec,                \* second loop: index of p_with_c, from 1
    lines,              \* the segments drawn, in order
    circles,            \* the disks drawn, in order
    \* frame loop
    show_triangulation,
    nbr_of_points,
    must_be_updated,
    done,
    canvas,     \* what the last redraw drew: its points, alpha and routine
    mpc,        \* position in the loop: "draw", "events", "quit", "raised"
    handled     \* events of the current batch handled so far

hullVars == <<points, p0, hull, i, drawn, hpc>>
globalVars == <<points_list, alpha, show_generalized_disks>>
shapeVars == <<triangles, points_with_center, considered_edges, tri, edge, rec,
               lines, circles>>
loopVars == <<show_triangulation, nbr_of_points, must_be_updated, done,
              canvas, mpc, handled>>
vars == <<hullVars, globalVars, shapeVars, loopVars>>

\* ----------------------------------------------------------------- helpers
Abs(n) == IF n < 0 THEN -n ELSE n

Range(s) == {s[k] : k \in 1..Len(s)}

\* Python's s[k] for a 0-based index k that may be negative
PyIndex(s, k) == IF k < 0 THEN s[Len(s) + k + 1] ELSE s[k + 1]

Reverse(s) == [k \in 1..Len(s) |-> s[Len(s) + 1 - k]]

\* s with element x inserted so that it ends at (1-based) position k
InsertAt(s, k, x) == SubSeq(s, 1, k - 1) \o <<x>> \o SubSeq(s, k, Len(s))

\* ------------------------------------------------------- geometry of hull
adjust_y_coord(p) == <<p[1], SCREEN_HEIGHT - p[2]>>

sort_by_y(p) == p[2]

sort_by_angle(p1, p2) ==
    LET angle_diff == p1[1] * p2[2] - p1[2] * p2[1]
    IN  IF angle_diff > 0 THEN -1
        ELSE IF angle_diff = 0 /\ Abs(p1[1]) > Abs(p2[1]) THEN -1
        ELSE 1

\* cmp_to_key: the key objects compare by K.__lt__(a, b) = cmp(a, b) < 0
AngleLT(a, b) == sort_by_angle(a, b) < 0

\* sorted(s, key=sort_by_y): a stable sort on a consistent key.
\* StableInsert puts p behind every element whose key is <= its own.
RECURSIVE StableInsert(_, _)
StableInsert(s, p) ==
    IF s = <<>> THEN <<p>>
    ELSE IF sort_by_y(p) < sort_by_y(s[Len(s)])
         THEN StableInsert(SubSeq(s, 1, Len(s) - 1), p) \o <<s[Len(s)]>>
         ELSE s \o <<p>>

RECURSIVE SortedByY(_)
SortedByY(s) ==
    IF s = <<>> THEN <<>>
    ELSE StableInsert(SortedByY(SubSeq(s, 1, Len(s) - 1)), s[Len(s)])

\* sorted(s, key=cmp_to_key(sort_by_angle)) as CPython's list.sort runs it on
\* fewer than 64 elements: count_run finds the leading run (reversing a
\* strictly descending one), binarysort inserts the rest one by one.  The
\* comparator is not a total order when points lie on opposite rays through
\* the pivot or coincide with it, so the result depends on these steps.
RECURSIVE RunLength(_, _, _)
RunLength(s, n, descending) ==
    IF n >= Len(s) THEN n
    ELSE IF AngleLT(s[n + 1], s[n]) = descending
         THEN RunLength(s, n + 1, descending)
         ELSE n

\* binary search of binarysort: the 0-based slot of pivot in s[l..r)
RECURSIVE BinarySlot(_, _, _, _)
BinarySlot(s, pivot, l, r) ==
    LET p == l + ((r - l) \div 2)
        l2 == IF AngleLT(pivot, s[p + 1]) THEN l ELSE p + 1
        r2 == IF AngleLT(pivot, s[p + 1]) THEN p ELSE r
    IN  IF l2 < r2 THEN BinarySlot(s, pivot, l2, r2) ELSE l2

RECURSIVE BinarySort(_, _)
BinarySort(s, start) ==
    \* s[1..start] is sorted; insert s[start+1], ...
    IF start >= Len(s) THEN s
    ELSE LET pivot == s[start + 1]
             slot == BinarySlot(s, pivot, 0, start)
             moved == InsertAt(SubSeq(s, 1, start), slot + 1, pivot)
                        \o SubSeq(s, start + 2, Len(s))
         IN  BinarySort(moved, start + 1)

SortedByAngle(s) ==
    IF Len(s) < 2 THEN s
    ELSE LET descending == AngleLT(s[2], s[1])
             n == RunLength(s, 2, descending)
             run == IF descending
                    THEN Reverse(SubSeq(s, 1, n)) \o SubSeq(s, n + 1, Len(s))
                    ELSE s
         IN  BinarySort(run, n)

\* lines 132-151: the list the scan runs over
Prepared(list) ==
    LET flipped == [k \in 1..Len(list) |-> adjust_y_coord(list[k])]
        byY == SortedByY(flipped)
        pivot == byY[1]
        moved == [k \in 1..Len(byY) |->
                    <<byY[k][1] - pivot[1], byY[k][2] - pivot[2]>>]
        byAngle == <<moved[1]>> \o SortedByAngle(Tail(moved))
    IN  [k \in 1..Len(byAngle) |->
            <<byAngle[k][1] + pivot[1], byAngle[k][2] + pivot[2]>>]

\* line 138
Pivot(list) ==
    SortedByY([k \in 1..Len(list) |-> adjust_y_coord(list[k])])[1]

\* line 160: > 0 when P lies left of A->B, < 0 when right, 0 when on the line
Pos(A, B, P) ==
    (B[1] - A[1]) * (P[2] - A[2]) - (P[1] - A[1]) * (B[2] - A[2])

\* line 158 and 160 for the current stack and index
ScanPos(pts, h, idx) ==
    Pos(PyIndex(h, Len(h) - 2), PyIndex(h, Len(h) - 1),
        PyIndex(pts, idx % Len(pts)))

\* the scan step with a collinear point pushed instead of skipped
ScanStep_PushCollinear(pts, h, idx) ==
    LET pos == ScanPos(pts, h, idx)
    IN  IF pos < 0
        THEN [hull |-> SubSeq(h, 1, Len(h) - 1), i |-> idx]
        ELSE [hull |-> Append(h, PyIndex(pts, idx % Len(pts))), i |-> idx + 1]

\* one iteration of the while loop, lines 158-169
ScanStep(pts, h, idx) ==
    LET pos == ScanPos(pts, h, idx)
    IN  IF pos < 0
        THEN [hull |-> SubSeq(h, 1, Len(h) - 1), i |-> idx]
        ELSE IF pos > 0
             THEN [hull |-> Append(h, PyIndex(pts, idx % Len(pts))),
                   i |-> idx + 1]
             ELSE [hull |-> h, i |-> idx + 1]

\* the whole loop, lines 156-169
RECURSIVE Scan(_, _, _)
Scan(pts, h, idx) ==
    IF idx <= Len(pts)
    THEN LET s == ScanStep(pts, h, idx) IN Scan(pts, s.hull, s.i)
    ELSE h

\* the hull stack convex_hull ends with
ConvexHull(list) ==
    LET pts == Prepared(list)
    IN  Scan(pts, <<Pivot(list), pts[2]>>, 2)

\* lines 172-173
DrawnSegments(h) ==
    [k \in 1..(Len(h) - 1) |->
        <<adjust_y_coord(h[k]), adjust_y_coord(h[k + 1])>>]

\* ---------------------------------------------------- convex_hull, stepwise
Grid == (0..MaxCoord) \X (0..MaxCoord)

\* the variables of a routine that is not running
IdleHull ==
    /\ points = <<>> /\ p0 = <<0, 0>> /\ hull = <<>>
    /\ i = 0 /\ drawn = <<>> /\ hpc = "idle"

IdleShape ==
    /\ triangles = <<>> /\ points_with_center = <<>> /\ considered_edges = <<>>
    /\ tri = 0 /\ edge = 0 /\ rec = 0 /\ lines = <<>> /\ circles = <<>>

IdleLoop ==
    /\ show_triangulation = FALSE /\ nbr_of_points = 0
    /\ must_be_updated = FALSE /\ done = FALSE
    /\ canvas = <<>> /\ mpc = "idle" /\ handled = 0

\* convex_hull entered with the list `list`
HullEntered(list) ==
    /\ points = list
    /\ p0 = <<0, 0>>
    /\ hull = <<>>
    /\ i = 0
    /\ drawn = <<>>
    /\ hpc = "start"

InitHull ==
    /\ \E n \in 3..MaxHullPoints : \E list \in [1..n -> Grid] : HullEntered(list)
    /\ points_list = <<>> /\ alpha = 0 /\ show_generalized_disks = FALSE
    /\ IdleShape
    /\ IdleLoop

ScanGrid == (0..MaxScanX) \X (0..MaxScanY)

InitScan ==
    /\ \E n \in 3..MaxScanPoints : \E list \in [1..n -> ScanGrid] : HullEntered(list)
    /\ points_list = <<>> /\ alpha = 0 /\ show_generalized_disks = FALSE
    /\ IdleShape
    /\ IdleLoop

\* lines 132-156
HullSetup ==
    /\ hpc = "start"
    /\ points' = Prepared(points)
    /\ p0' = Pivot(points)
    /\ hull' = <<p0', points'[2]>>
    /\ i' = 2
    /\ hpc' = "scan"
    /\ UNCHANGED <<drawn, globalVars, shapeVars, loopVars>>

ScanPop ==
    /\ hpc = "scan"
    /\ i <= Len(points)
    /\ ScanPos(points, hull, i) < 0
    /\ hull' = ScanStep(points, hull, i).hull
    /\ i' = ScanStep(points, hull, i).i
    /\ UNCHANGED <<points, p0, drawn, hpc, globalVars, shapeVars, loopVars>>

ScanPush ==
    /\ hpc = "scan"
    /\ i <= Len(points)
    /\ ScanPos(points, hull, i) > 0
    /\ hull' = ScanStep(points, hull, i).hull
    /\ i' = ScanStep(points, hull, i).i
    /\ UNCHANGED <<points, p0, drawn, hpc, globalVars, shapeVars, loopVars>>

ScanSkip ==
    /\ hpc = "scan"
    /\ i <= Len(points)
    /\ ScanPos(points, hull, i) = 0
    /\ hull' = ScanStep(points, hull, i).hull
    /\ i' = ScanStep(points, hull, i).i
    /\ UNCHANGED <<points, p0, drawn, hpc, globalVars, shapeVars, loopVars>>

\* lines 172-173
HullDraw ==
    /\ hpc = "scan"
    /\ i > Len(points)
    /\ drawn' = DrawnSegments(hull)
    /\ hpc' = "done"
    /\ UNCHANGED <<points, p0, hull, i, globalVars, shapeVars, loopVars>>

NextHull ==
    \/ HullSetup
    \/ ScanPop
    \/ ScanPush
    \/ ScanSkip
    \/ HullDraw

SpecHull == InitHull /\ [][NextHull]_vars

SpecScan == InitScan /\ [][NextHull]_vars


\* ------------------------------------------------ claims about convex_hull
AllCollinear(list) ==
    \A a \in Range(list), b \in Range(list), c \in Range(list) : Pos(a, b, c) = 0

\* q lies strictly outside the convex hull of the point set V: some line
\* through q has all of V strictly on one side (turned until it touches a).
StrictlyOutside(q, V) ==
    /\ q \notin V
    /\ \E a \in V : \A v \in V :
          LET c == (a[1] - q[1]) * (v[2] - q[2]) - (a[2] - q[2]) * (v[1] - q[1])
              d == (a[1] - q[1]) * (v[1] - q[1]) + (a[2] - q[2]) * (v[2] - q[2])
          IN  c > 0 \/ (c = 0 /\ d > 0)

ScanEnded == hpc \in {"scan", "done"} /\ i > Len(points)

\* C1: for every input of at least 3 points, not all collinear, no input
\* point lies strictly outside the polygon the hull stack describes when the
\* scan loop has ended (a point outside the convex hull of the stack's
\* vertices is outside every polygon on them).
C1_NoPointOutsideHull ==
    (ScanEnded /\ ~AllCollinear(points))
        => \A q \in Range(points) : ~StrictlyOutside(q, Range(hull))

\* the stack as a cyclic vertex sequence: a closing repeat of the first
\* vertex is not a vertex of its own
Polygon(h) ==
    IF Len(h) > 1 /\ h[Len(h)] = h[1] THEN SubSeq(h, 1, Len(h) - 1) ELSE h

Rotations(s) ==
    {[k \in 1..Len(s) |-> s[((k + r - 1) % Len(s)) + 1]] : r \in 0..(Len(s) - 1)}

SamePolygon(a, b) == Len(a) = Len(b) /\ b \in Rotations(a)

Reorderings(s) ==
    {[k \in 1..Len(s) |-> s[f[k]]] :
        f \in {g \in [1..Len(s) -> 1..Len(s)] :
                 \A x, y \in 1..Len(s) : x # y => g[x] # g[y]}}

\* the scan's points in the caller's (screen) coordinates: a reordering of
\* the list convex_hull was called with
CallerList(pts) == [k \in 1..Len(pts) |-> adjust_y_coord(pts[k])]

\* C2: for every input of at least 3 points, not all collinear, every
\* permutation of the input yields the same hull polygon as a cyclic
\* sequence of vertices.
C2_HullOrderInsensitive ==
    (hpc = "done" /\ ~AllCollinear(points))
        => \A perm \in Reorderings(CallerList(points)) :
              SamePolygon(Polygon(hull), Polygon(ConvexHull(perm)))

\* C5: for every input of at least 3 points, not all collinear, the drawn
\* segments form a closed boundary: they start at the pivot and end at it.
C5_HullClosed ==
    (hpc = "done" /\ ~AllCollinear(points))
        => /\ drawn # <<>>
           /\ drawn[1][1] = adjust_y_coord(p0)
           /\ drawn[Len(drawn)][2] = adjust_y_coord(p0)

\* C7: the pivot has the minimum y among the (y-flipped) points and, among
\* the points of minimum y, the minimum x, whatever the input order.
C7_PivotLowestThenLeftmost ==
    hpc \in {"scan", "done"}
        => \A q \in Range(points) :
              p0[2] < q[2] \/ (p0[2] = q[2] /\ p0[1] <= q[1])

\* what the scan loop has left to do: it ends when this reaches its floor
ScanVariant == 2 * (Len(points) + 1 - i) + Len(hull)

ScanInvariant ==
    hpc \in {"scan", "done"}
        => /\ hull # <<>>
           /\ hull[1] = p0
           /\ \A k \in 1..(Len(hull) - 2) :
                 Pos(hull[k], hull[k + 1], hull[k + 2]) > 0
           /\ ScanVariant >= 1

ScanProgress ==
    (hpc = "scan" /\ hpc' = "scan")
        => /\ \/ (Len(hull') = Len(hull) - 1 /\ i' = i)
              \/ i' = i + 1
           /\ ScanVariant' < ScanVariant

\* C10: throughout the scan the stack is non-empty, starts with the pivot
\* and turns strictly left at every three consecutive points; every
\* iteration pops the stack or advances i, which bounds the loop.
C10_ScanLoopInvariant == [](ScanInvariant) /\ [][ScanProgress]_vars

\* an iteration about to pop a vertex off a stack of at least three
C10_Witness ==
    /\ hpc = "scan"
    /\ i <= Len(points)
    /\ Len(hull) >= 3
    /\ ScanPos(points, hull, i) < 0


\* ------------------------------------------------------------ alpha_shape
\* Disk centres are irrational in general, so a centre is kept exactly, as
\* the doubled midpoint of its edge and the direction `off` of its offset:
\* c = mid2/2 + sqrt((4 r^2 - L) / L) * off/2 with L = |off|^2, and off is
\* <<0, 0>> when the two disks coincide (half_dist_btw_centers = 0).  Every
\* comparison of a distance with a bound is decided exactly, by squaring.
SqLen(v) == v[1] * v[1] + v[2] * v[2]

Dot(u, v) == u[1] * v[1] + u[2] * v[2]

\* line 182, for alpha counted in STEPs that divide STEPS_PER_UNIT
Radius(a) == STEPS_PER_UNIT \div Abs(a)

\* lines 194-198: half_dist_btw_points <= radius
HalfDistWithinRadius(p1, p2, r) ==
    SqLen(<<p2[1] - p1[1], p2[2] - p1[2]>>) <= 4 * r * r

\* lines 199-206: <<c1, c2>>
Centers(p1, p2, r) ==
    LET dx == p2[1] - p1[1]
        dy == p2[2] - p1[2]
        coincide == (dx * dx + dy * dy = 4 * r * r)
        mid2 == <<p1[1] + p2[1], p1[2] + p2[2]>>
    IN  <<[mid2 |-> mid2, off |-> IF coincide THEN <<0, 0>> ELSE <<dy, -dx>>],
          [mid2 |-> mid2, off |-> IF coincide THEN <<0, 0>> ELSE <<-dy, dx>>]>>

\* U > W * sqrt(num / den), for num >= 0 and den > 0
ExceedsRoot(U, W, num, den) ==
    IF num = 0 \/ W = 0 THEN U > 0
    ELSE IF W > 0 THEN U > 0 /\ U * U * den > W * W * num
    ELSE U >= 0 \/ U * U * den < W * W * num

\* 16 * distance(x, c)^2 = DistA(x, c, r) - DistW(x, c) * sqrt(DistNum / DistDen)
DistNum(c, r) == IF c.off = <<0, 0>> THEN 0 ELSE 4 * r * r - SqLen(c.off)

DistDen(c) == IF c.off = <<0, 0>> THEN 1 ELSE SqLen(c.off)

DistA(x, c, r) ==
    4 * (SqLen(<<2 * x[1] - c.mid2[1], 2 * x[2] - c.mid2[2]>>) + DistNum(c, r))

DistW(x, c) == 8 * Dot(<<2 * x[1] - c.mid2[1], 2 * x[2] - c.mid2[2]>>, c.off)

\* lines 225-226: distance(x, c) > radius + POINT_RADIUS/4
BeyondDisk(x, c, r) ==
    LET bound4 == 4 * r + POINT_RADIUS
    IN  ExceedsRoot(DistA(x, c, r) - bound4 * bound4, DistW(x, c),
                    DistNum(c, r), DistDen(c))

\* lines 232-233: distance(x, c) < radius - POINT_RADIUS/4
InsideDisk(x, c, r) ==
    LET bound4 == 4 * r - POINT_RADIUS
    IN  /\ bound4 > 0
        /\ ExceedsRoot(bound4 * bound4 - DistA(x, c, r), -DistW(x, c),
                       DistNum(c, r), DistDen(c))

\* is_valid with the rule of alpha < 0 applied whatever the sign of alpha
is_valid_SignIgnored(c, a, pts) ==
    \A x \in Range(pts) : ~InsideDisk(x, c, Radius(a))

\* lines 220-234: is_valid after the loop over points_list
is_valid(c, a, pts) ==
    IF a > 0
    THEN \A x \in Range(pts) : ~BeyondDisk(x, c, Radius(a))
    ELSE \A x \in Range(pts) : ~InsideDisk(x, c, Radius(a))

\* the edge test with only the orientation [p1, p2] looked up
EdgeConsidered_OneOrientation(ce, p1, p2) == <<p1, p2>> \in Range(ce)

\* line 190, negated
EdgeConsidered(ce, p1, p2) ==
    <<p1, p2>> \in Range(ce) \/ <<p2, p1>> \in Range(ce)

\* lines 208-214: the records appended for a new edge within the radius
WithDiscs(pwc, p1, p2, r) ==
    LET c == Centers(p1, p2, r)
        first == IF <<p1, p2, c[1]>> \notin Range(pwc)
                    /\ <<p2, p1, c[1]>> \notin Range(pwc)
                 THEN Append(pwc, <<p1, p2, c[1]>>)
                 ELSE pwc
    IN  IF <<p1, p2, c[2]>> \notin Range(first)
           /\ <<p2, p1, c[2]>> \notin Range(first)
        THEN Append(first, <<p1, p2, c[2]>>)
        ELSE first

\* line 188 for the current triangle and edge index
EdgeP1 == triangles[tri][edge + 1]
EdgeP2 == triangles[tri][((edge + 1) % 3) + 1]

Collecting == tri >= 1 /\ tri <= Len(triangles)
Validating == tri > Len(triangles) /\ rec <= Len(points_with_center)
ShapeDone == tri > Len(triangles) /\ rec > Len(points_with_center)

NextEdge ==
    /\ edge' = (edge + 1) % 3
    /\ tri' = IF edge = 2 THEN tri + 1 ELSE tri

\* line 190 false: the edge was considered before
EdgeSeen ==
    /\ Collecting
    /\ EdgeConsidered(considered_edges, EdgeP1, EdgeP2)
    /\ NextEdge
    /\ UNCHANGED <<triangles, points_with_center, considered_edges, rec,
                   lines, circles, hullVars, globalVars, loopVars>>

\* lines 192-198 with the test of line 198 false
EdgeTooLong ==
    /\ Collecting
    /\ ~EdgeConsidered(considered_edges, EdgeP1, EdgeP2)
    /\ ~HalfDistWithinRadius(EdgeP1, EdgeP2, Radius(alpha))
    /\ considered_edges' = Append(considered_edges, <<EdgeP1, EdgeP2>>)
    /\ NextEdge
    /\ UNCHANGED <<triangles, points_with_center, rec, lines, circles,
                   hullVars, globalVars, loopVars>>

\* lines 192-214
EdgeDiscs ==
    /\ Collecting
    /\ ~EdgeConsidered(considered_edges, EdgeP1, EdgeP2)
    /\ HalfDistWithinRadius(EdgeP1, EdgeP2, Radius(alpha))
    /\ considered_edges' = Append(considered_edges, <<EdgeP1, EdgeP2>>)
    /\ points_with_center' =
          WithDiscs(points_with_center, EdgeP1, EdgeP2, Radius(alpha))
    /\ NextEdge
    /\ UNCHANGED <<triangles, rec, lines, circles,
                   hullVars, globalVars, loopVars>>

\* lines 217-241 for a generalized disk
DiscValid ==
    /\ Validating
    /\ is_valid(points_with_center[rec][3], alpha, points_list)
    /\ lines' = Append(lines, <<points_with_center[rec][1],
                                points_with_center[rec][2]>>)
    /\ circles' = IF show_generalized_disks
                  THEN Append(circles, points_with_center[rec][3])
                  ELSE circles
    /\ rec' = rec + 1
    /\ UNCHANGED <<triangles, points_with_center, considered_edges, tri, edge,
                   hullVars, globalVars, loopVars>>

\* lines 217-235 for a disk that is none
DiscInvalid ==
    /\ Validating
    /\ ~is_valid(points_with_center[rec][3], alpha, points_list)
    /\ rec' = rec + 1
    /\ UNCHANGED <<triangles, points_with_center, considered_edges, tri, edge,
                   lines, circles, hullVars, globalVars, loopVars>>

NextShape ==
    \/ EdgeSeen
    \/ EdgeTooLong
    \/ EdgeDiscs
    \/ DiscValid
    \/ DiscInvalid

\* The inputs of alpha_shape: four positions a few pixels apart, of which
\* points_list holds all or all but one, and radii of 1, 2 and 4 pixels.
ShapePositions == <<<<0, 0>>, <<2, 0>>, <<0, 2>>, <<3, 4>>>>

ShapePointLists ==
    {ShapePositions}
        \cup {SubSeq(ShapePositions, 1, n - 1) \o SubSeq(ShapePositions, n + 1, 4) :
                n \in 1..4}

ShapeAlphas == {-1000, -500, -250, 250, 500, 1000}

\* the triangles a triangulator may return over pts: three distinct points
\* not on one line, in any order
TrianglesOver(pts) ==
    {tr \in Range(pts) \X Range(pts) \X Range(pts) : Pos(tr[1], tr[2], tr[3]) # 0}

\* a triangulation holds no triangle twice
TriangleLists(pts, n) ==
    {tl \in [1..n -> TrianglesOver(pts)] :
        \A a, b \in 1..n : a # b => Range(tl[a]) # Range(tl[b])}

InitShape ==
    /\ points_list \in ShapePointLists
    /\ alpha \in ShapeAlphas
    \* the frame loop calls alpha_shape with alpha > 0 on 4 points or more
    /\ alpha > 0 => Len(points_list) >= 4
    /\ show_generalized_disks = TRUE
    /\ \E n \in 1..MaxTriangles : triangles \in TriangleLists(points_list, n)
    /\ points_with_center = <<>>
    /\ considered_edges = <<>>
    /\ tri = 1
    /\ edge = 0
    /\ rec = 1
    /\ lines = <<>>
    /\ circles = <<>>
    /\ IdleHull
    /\ IdleLoop

SpecShape == InitShape /\ [][NextShape]_vars

\* ------------------------------------------------ claims about alpha_shape
\* the pairs of adjacent vertices of the triangles
TriangulationEdges ==
    {<<triangles[n][j + 1], triangles[n][((j + 1) % 3) + 1]>> :
        n \in 1..Len(triangles), j \in 0..2}

LineDrawn(p1, p2) == <<p1, p2>> \in Range(lines) \/ <<p2, p1>> \in Range(lines)

\* a disk of the claim: every point within r + eps of the centre for
\* alpha > 0, no point closer than r - eps to it for alpha < 0
GeneralizedDisk(c) ==
    IF alpha > 0
    THEN \A x \in Range(points_list) : ~BeyondDisk(x, c, Radius(alpha))
    ELSE ~\E x \in Range(points_list) : InsideDisk(x, c, Radius(alpha))

\* C4: when alpha_shape has finished, a triangulation edge is drawn if and
\* only if its half-length is at most the radius and at least one of its two
\* disks is valid against all of points_list; and nothing else is drawn.
C4_EdgeDrawnIffDiskValid ==
    ShapeDone
        => /\ \A ed \in TriangulationEdges :
                 LineDrawn(ed[1], ed[2])
                    <=> /\ HalfDistWithinRadius(ed[1], ed[2], Radius(alpha))
                        /\ \/ GeneralizedDisk(Centers(ed[1], ed[2], Radius(alpha))[1])
                           \/ GeneralizedDisk(Centers(ed[1], ed[2], Radius(alpha))[2])
           /\ \A l \in Range(lines) :
                 l \in TriangulationEdges \/ <<l[2], l[1]>> \in TriangulationEdges

\* alpha_shape has finished having drawn an edge on the strength of one disk
\* only, and having left out an edge within the radius whose disks both fail
C4_Witness ==
    /\ ShapeDone
    /\ \E ed \in TriangulationEdges :
          /\ LineDrawn(ed[1], ed[2])
          /\ ~GeneralizedDisk(Centers(ed[1], ed[2], Radius(alpha))[1])
    /\ \E ed \in TriangulationEdges :
          /\ ~LineDrawn(ed[1], ed[2])
          /\ HalfDistWithinRadius(ed[1], ed[2], Radius(alpha))

SameEdge(a, b) ==
    \/ (a[1] = b[1] /\ a[2] = b[2])
    \/ (a[1] = b[2] /\ a[2] = b[1])

\* C9: at every point of alpha_shape each undirected edge occurs at most
\* once in considered_edges, and points_with_center holds at most two
\* records for an undirected edge, never two of them with the same centre.
C9_EdgesConsideredOnce ==
    /\ \A m, n \in 1..Len(considered_edges) :
          m # n => ~SameEdge(considered_edges[m], considered_edges[n])
    /\ \A m \in 1..Len(points_with_center) :
          Cardinality({n \in 1..Len(points_with_center) :
                         SameEdge(points_with_center[m], points_with_center[n])}) <= 2
    /\ \A m, n \in 1..Len(points_with_center) :
          (m # n /\ SameEdge(points_with_center[m], points_with_center[n]))
              => points_with_center[m][3] # points_with_center[n][3]

\* the first loop stands at an edge that an earlier triangle held in the
\* opposite orientation, with that edge's two records already stored
C9_Witness ==
    /\ Collecting
    /\ <<EdgeP2, EdgeP1>> \in Range(considered_edges)
    /\ <<EdgeP1, EdgeP2>> \notin Range(considered_edges)
    /\ \E m \in 1..Len(points_with_center) :
          SameEdge(points_with_center[m], <<EdgeP1, EdgeP2>>)

\* -------------------------------------------------------------- frame loop
\* One iteration of `while not done` is a draw phase (mpc = "draw"), then one
\* step per event of the batch pygame.event.get() returned (mpc = "events"),
\* then EndFrame.  canvas records what the screen shows: the point list and
\* alpha of the last redraw and the routine that redraw ran.

\* lines 87-91: the first point within POINT_RADIUS of coords, as an index
\* into points_list, or 0 for None
verify_mouse(list, coords) ==
    LET near == {n \in 1..Len(list) :
                   SqLen(<<list[n][1] - coords[1], list[n][2] - coords[2]>>)
                       <= POINT_RADIUS * POINT_RADIUS}
    IN  IF near = {} THEN 0 ELSE CHOOSE n \in near : \A m \in near : n <= m

\* list.remove(x): without the first element equal to x
RECURSIVE Removed(_, _)
Removed(list, x) ==
    IF list = <<>> THEN <<>>
    ELSE IF Head(list) = x THEN Tail(list)
    ELSE <<Head(list)>> \o Removed(Tail(list), x)

\* the condition of line 252 asking for at least 4 points whenever alpha is
\* not 0
ComputesShape_FourWhenNonZero(a, n) ==
    (a # 0 /\ n >= 4) \/ (a = 0 /\ n >= 3)

\* line 252
ComputesShape(a, n) == (a > 0 /\ n >= 4) \/ (a <= 0 /\ n >= 3)

\* List objects are told apart by name: the global's list, and the list a
\* deep copy creates.
GlobalList == "points_list"

\* convex_hull handed the caller's own list
deepcopy_Alias(obj) == obj

\* line 255: deepcopy returns a new list of new points
deepcopy(obj) == "deepcopy"

\* lines 132-133: what convex_hull leaves in the list object it was given.
\* Lines 136 and 146 bind points to new lists, and lines 149-151 undo what
\* lines 141-143 did to the points.
ListAfterConvexHull(list) == [n \in 1..Len(list) |-> adjust_y_coord(list[n])]

Redraw == nbr_of_points # Len(points_list) \/ must_be_updated

\* line 246 false
DrawSkip ==
    /\ mpc = "draw"
    /\ ~Redraw
    /\ mpc' = "events"
    /\ handled' = 0
    /\ UNCHANGED <<show_triangulation, nbr_of_points, must_be_updated, done,
                   canvas, globalVars, hullVars, shapeVars>>

\* lines 246-252 and 269-271, line 252 false
DrawPoints ==
    /\ mpc = "draw"
    /\ Redraw
    /\ ~ComputesShape(alpha, Len(points_list))
    /\ nbr_of_points' = Len(points_list)
    /\ must_be_updated' = FALSE
    /\ canvas' = [points |-> points_list, alpha |-> alpha, ran |-> "none"]
    /\ mpc' = "events"
    /\ handled' = 0
    /\ UNCHANGED <<show_triangulation, done, globalVars, hullVars, shapeVars>>

\* lines 246-255 and 269-271
DrawHull ==
    /\ mpc = "draw"
    /\ Redraw
    /\ ComputesShape(alpha, Len(points_list))
    /\ alpha = 0
    /\ nbr_of_points' = Len(points_list)
    /\ must_be_updated' = FALSE
    /\ LET passed == deepcopy(GlobalList)
           after == IF passed = GlobalList
                    THEN ListAfterConvexHull(points_list)
                    ELSE points_list
       IN  /\ points_list' = after
           /\ canvas' = [points |-> after, alpha |-> alpha, ran |-> "convex_hull"]
    /\ mpc' = "events"
    /\ handled' = 0
    /\ UNCHANGED <<show_triangulation, done, alpha, show_generalized_disks,
                   hullVars, shapeVars>>

\* line 261 raises when no three of the points span a triangle (Qhull finds
\* no initial simplex)
Degenerate(list) ==
    \A a \in Range(list), b \in Range(list), c \in Range(list) :
        (b[1] - a[1]) * (c[2] - a[2]) = (b[2] - a[2]) * (c[1] - a[1])

\* lines 246-252, 256-267 and 269-271: np.asarray copies the points, and
\* alpha_shape only reads points_list
DrawAlphaShape ==
    /\ mpc = "draw"
    /\ Redraw
    /\ ComputesShape(alpha, Len(points_list))
    /\ alpha # 0
    /\ ~Degenerate(points_list)
    /\ nbr_of_points' = Len(points_list)
    /\ must_be_updated' = FALSE
    /\ canvas' = [points |-> points_list, alpha |-> alpha, ran |-> "alpha_shape"]
    /\ mpc' = "events"
    /\ handled' = 0
    /\ UNCHANGED <<show_triangulation, done, globalVars, hullVars, shapeVars>>

\* lines 246-252 and 256-261: the exception of line 261 ends the program
\* before anything of this frame reaches the display
DelaunayRaises ==
    /\ mpc = "draw"
    /\ Redraw
    /\ ComputesShape(alpha, Len(points_list))
    /\ alpha # 0
    /\ Degenerate(points_list)
    /\ nbr_of_points' = Len(points_list)
    /\ must_be_updated' = FALSE
    /\ mpc' = "raised"
    /\ handled' = 0
    /\ UNCHANGED <<show_triangulation, done, canvas, globalVars, hullVars,
                   shapeVars>>

\* an event of the batch is taken up
Event ==
    /\ mpc = "events"
    /\ handled < MaxBatch
    /\ handled' = handled + 1
    /\ mpc' = mpc
    /\ UNCHANGED <<canvas, nbr_of_points, hullVars, shapeVars>>

\* lines 275-276
Quit ==
    /\ Event
    /\ done' = TRUE
    /\ UNCHANGED <<show_triangulation, must_be_updated, globalVars>>

\* lines 279-280
KeyC ==
    /\ Event
    /\ points_list' = <<>>
    /\ UNCHANGED <<show_triangulation, must_be_updated, done, alpha,
                   show_generalized_disks>>

\* lines 282-284
KeyT ==
    /\ Event
    /\ show_triangulation' = ~show_triangulation
    /\ must_be_updated' = TRUE
    /\ UNCHANGED <<done, globalVars>>

\* lines 286-288
KeyD ==
    /\ Event
    /\ show_generalized_disks' = ~show_generalized_disks
    /\ must_be_updated' = TRUE
    /\ UNCHANGED <<show_triangulation, done, points_list, alpha>>

\* lines 290-300: key 0, 1 or 2 while alpha is not yet its value
KeyPreset ==
    /\ Event
    /\ \E value \in {0, NEGATIVE_ALPHA_VALUE, POSITIVE_ALPHA_VALUE} :
          /\ alpha # value
          /\ alpha' = value
    /\ must_be_updated' = TRUE
    /\ UNCHANGED <<show_triangulation, done, points_list, show_generalized_disks>>

\* a key that matches no branch of lines 279-308: another key, or key 0, 1
\* or 2 while alpha has its value already
KeyIgnored ==
    /\ Event
    /\ UNCHANGED <<show_triangulation, must_be_updated, done, globalVars>>

WithinDrift(a) == Abs(a) <= MaxDrift

\* lines 302-304
KeyRight ==
    /\ Event
    /\ WithinDrift(alpha + STEP)
    /\ alpha' = alpha + STEP
    /\ must_be_updated' = TRUE
    /\ UNCHANGED <<show_triangulation, done, points_list, show_generalized_disks>>

\* lines 306-308
KeyLeft ==
    /\ Event
    /\ WithinDrift(alpha - STEP)
    /\ alpha' = alpha - STEP
    /\ must_be_updated' = TRUE
    /\ UNCHANGED <<show_triangulation, done, points_list, show_generalized_disks>>

\* line 310: where the mouse may be when a button event is handled.  Three of
\* the pixels are on a line, and two pairs of them are within POINT_RADIUS.
MousePositions == {<<0, 0>>, <<5, 0>>, <<10, 0>>, <<0, 5>>}

\* lines 309-313, the button pressed on a pixel that holds no point yet:
\* points_list has at most one point for each of MousePositions
LeftClick ==
    /\ Event
    /\ \E coords \in MousePositions \ Range(points_list) :
          points_list' = Append(points_list, coords)
    /\ UNCHANGED <<show_triangulation, must_be_updated, done, alpha,
                   show_generalized_disks>>

\* lines 315-318, a point found
RightClickPoint ==
    /\ Event
    /\ \E coords \in MousePositions :
          /\ verify_mouse(points_list, coords) # 0
          /\ points_list' =
                Removed(points_list, points_list[verify_mouse(points_list, coords)])
    /\ UNCHANGED <<show_triangulation, must_be_updated, done, alpha,
                   show_generalized_disks>>

\* lines 315-317, no point found
RightClickNothing ==
    /\ Event
    /\ \E coords \in MousePositions : verify_mouse(points_list, coords) = 0
    /\ UNCHANGED <<show_triangulation, must_be_updated, done, globalVars>>

\* lines 321-322 and the loop test of line 244
EndFrame ==
    /\ mpc = "events"
    /\ mpc' = IF done THEN "quit" ELSE "draw"
    /\ handled' = 0
    /\ UNCHANGED <<show_triangulation, nbr_of_points, must_be_updated, done,
                   canvas, globalVars, hullVars, shapeVars>>

\* lines 71-83
InitLoop ==
    /\ points_list = <<>>
    /\ alpha = 0
    /\ show_generalized_disks = FALSE
    /\ show_triangulation = FALSE
    /\ nbr_of_points = 0
    /\ must_be_updated = TRUE
    /\ done = FALSE
    /\ canvas = [points |-> <<>>, alpha |-> 0, ran |-> "blank"]
    /\ mpc = "draw"
    /\ handled = 0
    /\ IdleHull
    /\ IdleShape

NextLoop ==
    \/ DrawSkip
    \/ DrawPoints
    \/ DrawHull
    \/ DrawAlphaShape
    \/ DelaunayRaises
    \/ Quit
    \/ KeyC
    \/ KeyT
    \/ KeyD
    \/ KeyPreset
    \/ KeyIgnored
    \/ KeyRight
    \/ KeyLeft
    \/ LeftClick
    \/ RightClickPoint
    \/ RightClickNothing
    \/ EndFrame

SpecLoop == InitLoop /\ [][NextLoop]_vars

\* The frame loop while pygame.event.get() returns at most MaxFrameEvents
\* events.
ShortBatch == handled < MaxFrameEvents

NextFrame ==
    \/ DrawSkip
    \/ DrawPoints
    \/ DrawHull
    \/ DrawAlphaShape
    \/ DelaunayRaises
    \/ ShortBatch /\ Quit
    \/ ShortBatch /\ KeyC
    \/ ShortBatch /\ KeyT
    \/ ShortBatch /\ KeyD
    \/ ShortBatch /\ KeyPreset
    \/ ShortBatch /\ KeyIgnored
    \/ ShortBatch /\ KeyRight
    \/ ShortBatch /\ KeyLeft
    \/ ShortBatch /\ LeftClick
    \/ ShortBatch /\ RightClickPoint
    \/ ShortBatch /\ RightClickNothing
    \/ EndFrame

SpecFrame == InitLoop /\ [][NextFrame]_vars

\* ------------------------------------------------- claims on the frame loop

\* what the last redraw computed, against the number of points it drew
RanHullIff(cond) == (canvas.ran = "convex_hull") <=> cond
RanAlphaShapeIff(cond) == (canvas.ran = "alpha_shape") <=> cond

C6_PointsListNotMutated ==
    /\ [](\A n \in 1..Len(points_list) : points_list[n] \in MousePositions)
    /\ [][mpc = "draw" => points_list' = points_list]_vars

\* the frame's draw phase has just run convex_hull
C6_Witness ==
    /\ mpc = "events"
    /\ handled = 0
    /\ nbr_of_points = Len(points_list)
    /\ canvas.ran = "convex_hull"
    /\ Len(points_list) >= 3

\* C8: when a frame's draw phase is over, the canvas shows the current
\* points and the current alpha, whatever the events of the batches before.
C8_CanvasFollowsState ==
    (mpc = "events" /\ handled = 0) =>
        /\ canvas.points = points_list
        /\ canvas.alpha = alpha

=============================================================================
